---- MODULE Spec2Model ----
(***************************************************************************)
(* Tic Tac Toe (src/frontend_react_js/src/App.js): the App component's     *)
(* state, its event handlers, its two effects (game over, computer move)   *)
(* and the pure helpers calculateWinner, isDraw and computeAIMove.         *)
(*                                                                         *)
(* One action is one event (a click, a button, the expiry of the           *)
(* computer's timer) together with the render it causes and the effects    *)
(* that render runs: React flushes the effects of a render, and the        *)
(* re-render their state updates cause, before it dispatches the next      *)
(* event, so the handlers of the next event close over the settled state.  *)
(* The one stale value that survives is the `status` captured by the       *)
(* computer-move timer, whose effect does not re-run when only status      *)
(* changes; the timer therefore carries the closure it was created in.     *)
(***************************************************************************)
EXTENDS Integers, Sequences, FiniteSets, TLC

\* Bound on the number of finished games the tally may hold (the counters
\* are unbounded in the program).
MaxGames == 1

\* JavaScript null: the value of an empty cell and of "no winner".
null == "null"

\* Stand-in for JavaScript's Infinity: larger than every minimax score,
\* which lie in -10..10.
Infinity == 100

\* The 8 winning lines, in the order calculateWinner scans them.
lines ==
  << <<0, 1, 2>>, <<3, 4, 5>>, <<6, 7, 8>>,
     <<0, 3, 6>>, <<1, 4, 7>>, <<2, 5, 8>>,
     <<0, 4, 8>>, <<2, 4, 6>> >>

\* Array(9).fill(null)
EmptyBoard == [i \in 0..8 |-> null]

\* squares[i] for any i: a missing element or property reads as undefined,
\* which is falsy like null.
Get(sq, i) == IF i \in DOMAIN sq THEN sq[i] ELSE null

\* The array elements of sq (non-negative indices); a negative index is a
\* plain property of the array object, which slice() and spread do not copy.
slice(sq) == [j \in {k \in DOMAIN sq : k >= 0} |-> sq[j]]

\* squares.every((v) => v): every array element (holes are skipped, and so
\* are properties that are not elements) is truthy.
every(sq) == \A i \in DOMAIN sq : i < 0 \/ sq[i] # null

\* The test of calculateWinner's loop body on line l = [a, b, c].
Hit(sq, l) == sq[l[1]] # null /\ sq[l[1]] = sq[l[2]] /\ sq[l[1]] = sq[l[3]]

\* calculateWinner with the last entry of its table of lines missing (the
\* diagonal 2-4-6).
calculateWinnerSevenLines(sq) ==
  IF Hit(sq, lines[1]) THEN <<sq[lines[1][1]], lines[1]>>
  ELSE IF Hit(sq, lines[2]) THEN <<sq[lines[2][1]], lines[2]>>
  ELSE IF Hit(sq, lines[3]) THEN <<sq[lines[3][1]], lines[3]>>
  ELSE IF Hit(sq, lines[4]) THEN <<sq[lines[4][1]], lines[4]>>
  ELSE IF Hit(sq, lines[5]) THEN <<sq[lines[5][1]], lines[5]>>
  ELSE IF Hit(sq, lines[6]) THEN <<sq[lines[6][1]], lines[6]>>
  ELSE IF Hit(sq, lines[7]) THEN <<sq[lines[7][1]], lines[7]>>
  ELSE <<null, null>>

\* calculateWinner(squares): <<winner, line>> of the first line, in scan
\* order, whose three cells hold the same non-empty symbol (the loop over
\* the 8 lines, unrolled).
calculateWinner(sq) ==
  IF Hit(sq, lines[1]) THEN <<sq[lines[1][1]], lines[1]>>
  ELSE IF Hit(sq, lines[2]) THEN <<sq[lines[2][1]], lines[2]>>
  ELSE IF Hit(sq, lines[3]) THEN <<sq[lines[3][1]], lines[3]>>
  ELSE IF Hit(sq, lines[4]) THEN <<sq[lines[4][1]], lines[4]>>
  ELSE IF Hit(sq, lines[5]) THEN <<sq[lines[5][1]], lines[5]>>
  ELSE IF Hit(sq, lines[6]) THEN <<sq[lines[6][1]], lines[6]>>
  ELSE IF Hit(sq, lines[7]) THEN <<sq[lines[7][1]], lines[7]>>
  ELSE IF Hit(sq, lines[8]) THEN <<sq[lines[8][1]], lines[8]>>
  ELSE <<null, null>>

isDraw(sq) == every(sq) /\ calculateWinner(sq)[1] = null

\* Math.max and Math.min.
Max(a, b) == IF a >= b THEN a ELSE b
Min(a, b) == IF a <= b THEN a ELSE b

\* The values a score variable takes.
Scores == (-Infinity)..Infinity

\* squares.findIndex((v) => !v) over the 9 cells: the first empty cell, or -1.
findIndexEmpty(sq) ==
  IF \E i \in 0..8 : sq[i] = null
  THEN CHOOSE i \in 0..8 : sq[i] = null /\ \A j \in 0..(i - 1) : sq[j] # null
  ELSE -1

\* A plausible wrong engine: no search, the first empty cell.
computeAIMoveFirstEmpty(sq, aiPlayer) == findIndexEmpty(sq)

\* computeAIMove with two of its details open: the weight of depth in the
\* score of a decided board (1 in the code) and the comparison that
\* replaces the best move (a strictly greater score in the code, TRUE
\* here for a greater or equal one).
computeAIMoveWith(sq, aiPlayer, depthWeight, orEqual) ==
  LET human == IF aiPlayer = "X" THEN "O" ELSE "X"
      minimax[board \in [DOMAIN sq -> {null, "X", "O"}],
              depth \in 0..9, isMax \in BOOLEAN] ==
        LET winner == calculateWinner(board)[1]
            loop[i \in 0..9, best \in Scores] ==
              IF i >= 9 THEN best
              ELSE IF board[i] = null
                   THEN LET score ==
                              minimax[[board EXCEPT
                                         ![i] = IF isMax THEN aiPlayer
                                                ELSE human],
                                      depth + 1, ~isMax]
                        IN loop[i + 1, IF isMax THEN Max(best, score)
                                       ELSE Min(best, score)]
                   ELSE loop[i + 1, best]
        IN IF winner = aiPlayer THEN 10 - depthWeight * depth
           ELSE IF winner = human THEN depthWeight * depth - 10
           ELSE IF every(board) THEN 0
           ELSE loop[0, IF isMax THEN -Infinity ELSE Infinity]
      top[i \in 0..9, bestScore \in Scores, move \in -1..8] ==
        IF i >= 9 THEN move
        ELSE IF sq[i] = null
             THEN LET score == minimax[[sq EXCEPT ![i] = aiPlayer], 0, FALSE]
                  IN IF score > bestScore \/ (orEqual /\ score = bestScore)
                     THEN top[i + 1, score, i]
                     ELSE top[i + 1, bestScore, move]
             ELSE top[i + 1, bestScore, move]
      found == top[0, -Infinity, -1]
  IN IF found = -1 THEN findIndexEmpty(sq) ELSE found

\* An engine that keeps the last cell of greatest score (>= for >).
computeAIMoveLastBest(sq, aiPlayer) == computeAIMoveWith(sq, aiPlayer, 1, TRUE)

\* An engine whose scores ignore depth (10 and -10 for a decided board).
computeAIMoveNoDepth(sq, aiPlayer) == computeAIMoveWith(sq, aiPlayer, 0, FALSE)

\* An engine that searches for the other symbol (the two symbols swapped
\* at the call).
computeAIMoveForOpponent(sq, aiPlayer) ==
  computeAIMoveWith(sq, IF aiPlayer = "X" THEN "O" ELSE "X", 1, FALSE)

\* computeAIMove(squares, aiPlayer): minimax over the board; the loops visit
\* the cells 0..8 in ascending order, and the top level keeps the first cell
\* with a strictly greater score.
computeAIMove(sq, aiPlayer) ==
  LET human == IF aiPlayer = "X" THEN "O" ELSE "X"
      minimax[board \in [DOMAIN sq -> {null, "X", "O"}],
              depth \in 0..9, isMax \in BOOLEAN] ==
        LET winner == calculateWinner(board)[1]
            loop[i \in 0..9, best \in Scores] ==
              IF i >= 9 THEN best
              ELSE IF board[i] = null
                   THEN LET score ==
                              minimax[[board EXCEPT
                                         ![i] = IF isMax THEN aiPlayer
                                                ELSE human],
                                      depth + 1, ~isMax]
                        IN loop[i + 1, IF isMax THEN Max(best, score)
                                       ELSE Min(best, score)]
                   ELSE loop[i + 1, best]
        IN IF winner = aiPlayer THEN 10 - depth
           ELSE IF winner = human THEN depth - 10
           ELSE IF every(board) THEN 0
           ELSE loop[0, IF isMax THEN -Infinity ELSE Infinity]
      top[i \in 0..9, bestScore \in Scores, move \in -1..8] ==
        IF i >= 9 THEN move
        ELSE IF sq[i] = null
             THEN LET score == minimax[[sq EXCEPT ![i] = aiPlayer], 0, FALSE]
                  IN IF score > bestScore THEN top[i + 1, score, i]
                     ELSE top[i + 1, bestScore, move]
             ELSE top[i + 1, bestScore, move]
      found == top[0, -Infinity, -1]
  IN IF found = -1 THEN findIndexEmpty(sq) ELSE found

VARIABLES
  mode,         \* "pvp" or "ai"
  squares,      \* the board: cell index -> null, "X" or "O"
  xIsNext,      \* TRUE when X is the active player
  status,       \* "ongoing", "win" or "draw"
  score,        \* the tally [X, O, D]
  disableAnim,  \* status animation switch
  aiTimeout,    \* {} or {the closure of the pending computer-move timer}
  placed        \* history: for each cell, who placed its mark, in which mode

vars == <<mode, squares, xIsNext, status, score, disableAnim, aiTimeout, placed>>

Modes == {"pvp", "ai"}

ZeroScore == [X |-> 0, O |-> 0, D |-> 0]

\* No mark placed yet.
NoMark == [mode |-> "none", by |-> "none"]
NoMarks == [i \in 0..8 |-> NoMark]

\* State after the first render and its effects: pvp, empty board, X to
\* move, and the tally of a first run (nothing in localStorage). A stored
\* tally is one an earlier run reached, and this run reaches it again.
Init ==
  /\ mode = "pvp"
  /\ squares = EmptyBoard
  /\ xIsNext = TRUE
  /\ status = "ongoing"
  /\ score = ZeroScore
  /\ disableAnim = FALSE
  /\ aiTimeout = {}
  /\ placed = NoMarks

\* What a handler created in the current render closes over.
Closure ==
  [squares |-> squares, xIsNext |-> xIsNext, mode |-> mode, status |-> status]

\* A game-over effect without its draw branch.
gameOverStatusNoDraw(sq) ==
  IF calculateWinner(sq)[1] # null THEN "win" ELSE "ongoing"

\* Game-over effect, status part.
gameOverStatus(sq) ==
  IF calculateWinner(sq)[1] # null THEN "win"
  ELSE IF isDraw(sq) THEN "draw"
  ELSE "ongoing"

\* A game-over effect that forgets the draw branch.
gameOverScoreWinsOnly(sq, prev) ==
  LET winner == calculateWinner(sq)[1] IN
  IF winner # null THEN [prev EXCEPT ![winner] = @ + 1] ELSE prev

\* Game-over effect, tally part: one counter moves, by one.
gameOverScore(sq, prev) ==
  LET winner == calculateWinner(sq)[1] IN
  IF winner # null THEN [prev EXCEPT ![winner] = @ + 1]
  ELSE IF isDraw(sq) THEN [prev EXCEPT !.D = @ + 1]
  ELSE prev

\* A computer-move effect that returns no cleanup: a timer that is not
\* replaced stays pending.
aiEffectNoCleanup(sq, x, m, st, prev) ==
  IF /\ m = "ai"
     /\ calculateWinner(sq)[1] = null
     /\ ~isDraw(sq)
     /\ ~x
  THEN {[squares |-> sq, xIsNext |-> x, mode |-> m, status |-> st]}
  ELSE prev

\* A computer-move effect that tests xIsNext where the code tests !xIsNext.
aiEffectOnXTurn(sq, x, m, st, prev) ==
  IF /\ m = "ai"
     /\ calculateWinner(sq)[1] = null
     /\ ~isDraw(sq)
     /\ x
  THEN {[squares |-> sq, xIsNext |-> x, mode |-> m, status |-> st]}
  ELSE {}

\* Computer-move effect: its cleanup clears the previous timer (prev), and
\* its body starts a new one when it is the computer's turn. st is the
\* status of the render the effect runs in.
aiEffect(sq, x, m, st, prev) ==
  IF /\ m = "ai"
     /\ calculateWinner(sq)[1] = null
     /\ ~isDraw(sq)
     /\ ~x
  THEN {[squares |-> sq, xIsNext |-> x, mode |-> m, status |-> st]}
  ELSE {}

\* The render after setSquares (always a new array, so both effects run),
\* with the new board, active player, mode and animation switch.
Render(sq, x, m, anim, pl) ==
  /\ squares' = sq
  /\ xIsNext' = x
  /\ mode' = m
  /\ placed' = pl
  /\ status' = gameOverStatus(sq)
  /\ score' = gameOverScore(sq, score)
  /\ aiTimeout' = aiEffect(sq, x, m, status, aiTimeout)
  /\ disableAnim' = IF aiTimeout' # {} THEN TRUE ELSE anim
  /\ score'.X + score'.O + score'.D <= MaxGames

\* handleSquareClick without the `winner` test of its first return.
AcceptsAfterWin(c, i, isAI) ==
  /\ ~(Get(c.squares, i) # null \/ c.status = "draw")
  /\ ~(c.mode = "ai" /\ ~c.xIsNext /\ ~isAI)

\* handleSquareClick without its second return (manual O moves in ai mode).
AcceptsManualO(c, i, isAI) ==
  ~(\/ Get(c.squares, i) # null
    \/ calculateWinner(c.squares)[1] # null
    \/ c.status = "draw")

\* handleSquareClick without the `squares[i]` test of its first return
\* (a click overwrites an occupied cell).
AcceptsOccupied(c, i, isAI) ==
  /\ ~(calculateWinner(c.squares)[1] # null \/ c.status = "draw")
  /\ ~(c.mode = "ai" /\ ~c.xIsNext /\ ~isAI)

\* The two early returns of handleSquareClick, in closure c.
Accepts(c, i, isAI) ==
  /\ ~(\/ Get(c.squares, i) # null
       \/ calculateWinner(c.squares)[1] # null
       \/ c.status = "draw")
  /\ ~(c.mode = "ai" /\ ~c.xIsNext /\ ~isAI)

\* squares.slice() with cell i set to the active player's symbol.
squaresNew(c, i) ==
  [j \in {k \in DOMAIN c.squares : k >= 0} \cup {i} |->
     IF j = i THEN (IF c.xIsNext THEN "X" ELSE "O") ELSE c.squares[j]]

\* The history of the same assignment.
placedNew(c, i, isAI) ==
  [j \in {k \in DOMAIN c.squares : k >= 0} \cup {i} |->
     IF j = i THEN [mode |-> c.mode, by |-> IF isAI THEN "computer" ELSE "human"]
     ELSE placed[j]]

\* handleSquareClick(i) called from the board of the current render.
handleSquareClick(i) ==
  IF Accepts(Closure, i, FALSE)
  THEN Render(squaresNew(Closure, i), ~xIsNext, mode, disableAnim,
              placedNew(Closure, i, FALSE))
  ELSE UNCHANGED vars

\* The timer callback: computeAIMove on a copy of the board it closed
\* over, handleSquareClick(move, true) in that closure, setDisableAnim.
aiTimeoutFires ==
  /\ aiTimeout # {}
  /\ \E c \in aiTimeout :
       \E move \in {computeAIMove(slice(c.squares), "O")} :
         IF Accepts(c, move, TRUE)
         THEN Render(squaresNew(c, move), ~c.xIsNext, mode, FALSE,
                     placedNew(c, move, TRUE))
         ELSE /\ disableAnim' = FALSE
              /\ aiTimeout' = {}
              /\ UNCHANGED <<mode, squares, xIsNext, status, score, placed>>

\* A restart that forgets setXIsNext(true).
handleRestartKeepTurn == Render(EmptyBoard, xIsNext, mode, FALSE, NoMarks)

handleRestart == Render(EmptyBoard, TRUE, mode, FALSE, NoMarks)

\* A reset wired to clear the game as well as the tally.
handleResetAndRestart ==
  /\ score' = ZeroScore
  /\ squares' = EmptyBoard
  /\ xIsNext' = TRUE
  /\ status' = "ongoing"
  /\ disableAnim' = FALSE
  /\ aiTimeout' = {}
  /\ placed' = NoMarks
  /\ UNCHANGED mode

handleReset ==
  /\ score' = ZeroScore
  /\ UNCHANGED <<mode, squares, xIsNext, status, disableAnim, aiTimeout, placed>>

\* A mode change that forgets handleRestart(): only the computer-move
\* effect re-runs (mode is one of its dependencies).
handleModeChangeNoRestart(val) ==
  /\ mode' = val
  /\ aiTimeout' = aiEffect(squares, xIsNext, val, status, aiTimeout)
  /\ disableAnim' = IF aiTimeout' # {} THEN TRUE ELSE disableAnim
  /\ UNCHANGED <<squares, xIsNext, status, score, placed>>

\* A mode change whose restart forgets setXIsNext(true).
handleModeChangeKeepTurn(val) == Render(EmptyBoard, xIsNext, val, FALSE, NoMarks)

handleModeChange(val) == Render(EmptyBoard, TRUE, val, FALSE, NoMarks)

(***************************************************************************)
(* The events the page can produce.                                       *)
(***************************************************************************)
ClickSquare == \E i \in 0..8 : handleSquareClick(i)

AIMove == aiTimeoutFires

Restart == handleRestart

\* The Reset Scores button is disabled while the tally is all zero.
ResetScores == score # ZeroScore /\ handleReset

\* The mode buttons are disabled unless status is "ongoing".
ChangeMode == status = "ongoing" /\ \E val \in Modes : handleModeChange(val)

Next == ClickSquare \/ AIMove \/ Restart \/ ResetScores \/ ChangeMode

Spec == Init /\ [][Next]_vars

\* A pending timer stops being pending: the step that ends it is AIMove
\* (its callback runs) or the clearTimeout of a Restart or ChangeMode.
TimerEnds == aiTimeout # {} /\ aiTimeout' = {}

\* setTimeout(..., 600) runs its callback unless the timer is cleared: a
\* timer does not stay pending for ever.
FairSpec == Spec /\ WF_aiTimeout(TimerEnds)

(***************************************************************************)
(* The handlers called directly (they are the component's public          *)
(* interface), with any index next to the board and without the           *)
(* disabled-button conditions of the page.                                *)
(***************************************************************************)
RawIndices == 0..9

CallSquareClick == \E i \in RawIndices : handleSquareClick(i)

CallReset == handleReset

CallModeChange == \E val \in Modes : handleModeChange(val)

NextRaw == CallSquareClick \/ AIMove \/ Restart \/ CallReset \/ CallModeChange

SpecRaw == Init /\ [][NextRaw]_vars

(***************************************************************************)
(* The rules of the game, stated on the board alone.                      *)
(***************************************************************************)
Cells == 0..8

HasLine(sq, p) == \E k \in 1..8 : \A j \in 1..3 : sq[lines[k][j]] = p

Full(sq) == \A i \in Cells : sq[i] # null

Terminal(sq) == HasLine(sq, "X") \/ HasLine(sq, "O") \/ Full(sq)

\* The counter a finished board belongs to.
Outcome(sq) ==
  IF HasLine(sq, "X") THEN "X" ELSE IF HasLine(sq, "O") THEN "O" ELSE "D"

Count(sq, p) == Cardinality({i \in Cells : sq[i] = p})

\* C1: against the computer (mode "ai", computer plays O) no reachable
\* board has a completed line of X: the human never wins.
ComputerNeverLoses == mode = "ai" => ~HasLine(squares, "X")

\* A game against the computer played to the end of the board.
ComputerDrawReached ==
  /\ mode = "ai"
  /\ Full(squares)
  /\ ~HasLine(squares, "O")
  /\ \E i \in Cells : placed[i].by = "computer"

\* C2: the step that ends a game adds exactly 1 to the counter of its
\* outcome and leaves the other two alone; every other step leaves the
\* tally alone or is resetScores.
TallyCountsEachGameOnce ==
  [][IF ~Terminal(squares) /\ Terminal(squares')
     THEN score' = [score EXCEPT ![Outcome(squares')] = @ + 1]
     ELSE score' = score \/ (handleReset /\ score' = ZeroScore)]_vars

\* A game won by O has been counted, once.
GameCounted ==
  /\ HasLine(squares, "O")
  /\ score = [X |-> 0, O |-> 1, D |-> 0]

\* C3: on a terminal board a cell click and the computer's timer leave
\* the board and the active player alone, and any step that changes the
\* board is a restart or a mode change, to the empty board with X to move.
TerminalIsAbsorbing ==
  [][Terminal(squares) =>
       /\ (ClickSquare \/ AIMove) => UNCHANGED <<squares, xIsNext>>
       /\ (squares' # squares \/ xIsNext' # xIsNext) =>
            /\ Restart \/ ChangeMode
            /\ squares' = EmptyBoard
            /\ xIsNext' = TRUE]_vars

\* A won board with empty cells left to click.
WonWithEmptyCells ==
  /\ HasLine(squares, "X") \/ HasLine(squares, "O")
  /\ ~Full(squares)
  /\ status = "win"

\* The three illegal moves of C4.
IllegalMove(i) ==
  \/ squares[i] # null
  \/ Terminal(squares)
  \/ mode = "ai" /\ ~xIsNext

\* C4: a click on a cell 0..8 that is an illegal move changes nothing.
IllegalMoveIsNoOp ==
  [][\A i \in Cells :
       (IllegalMove(i) /\ handleSquareClick(i)) => UNCHANGED vars]_vars

\* The computer's turn with empty cells the human could click.
ManualMoveOnComputersTurn ==
  /\ mode = "ai"
  /\ ~xIsNext
  /\ ~Terminal(squares)
  /\ \E i \in Cells : squares[i] = null
  /\ \E i \in Cells : squares[i] = "O"

\* C5: handleSquareClick with an index outside 0..8 leaves the board at 9
\* cells with the same contents and does not flip the active player.
OutOfRangeClickIsNoOp ==
  [][\A i \in RawIndices \ Cells :
       handleSquareClick(i) =>
         /\ DOMAIN squares' = Cells
         /\ squares' = squares
         /\ xIsNext' = xIsNext]_vars

\* The timer that is pending is the one of the current render.
PendingTimerIsCurrent ==
  \A t \in aiTimeout :
    t.squares = squares /\ t.xIsNext = xIsNext /\ t.mode = mode

\* A restart or mode change with a computer move pending clears the timer
\* and gives the empty board with X to move.
DiscardStep ==
  (aiTimeout # {} /\ (Restart \/ ChangeMode)) =>
    (aiTimeout' = {} /\ squares' = EmptyBoard /\ xIsNext' = TRUE)

\* The empty board changes only by a human X move.
FirstMoveStep ==
  (squares = EmptyBoard /\ squares' # squares) =>
    (\E i \in Cells :
       /\ squares' = [squares EXCEPT ![i] = "X"]
       /\ placed'[i].by = "human")

\* C6: a restart or mode change with a computer move pending discards it:
\* the timer is cleared, no timer is ever pending on an empty board, and
\* the fresh board stays empty with X to move until the human plays.
PendingMoveIsDiscarded ==
  /\ [](PendingTimerIsCurrent /\ (squares = EmptyBoard => aiTimeout = {}))
  /\ [][DiscardStep /\ FirstMoveStep]_vars

\* A computer move is pending in the middle of a game.
ComputerMovePending ==
  /\ aiTimeout # {}
  /\ Count(squares, "X") >= 2
  /\ disableAnim

\* The computer's turn.
ComputersTurn == mode = "ai" /\ ~Terminal(squares) /\ ~xIsNext

\* On the computer's turn the timer is pending, for the current board.
TimerSetOnComputersTurn ==
  ComputersTurn =>
    aiTimeout = {[squares |-> squares, xIsNext |-> FALSE,
                  mode |-> "ai", status |-> "ongoing"]}

\* On the computer's turn the board changes only by a restart (or mode
\* change) or by O placed on computeAIMove of the current board.
ComputerMoveStep ==
  (ComputersTurn /\ squares' # squares) =>
    \/ squares' = EmptyBoard /\ (Restart \/ ChangeMode)
    \/ /\ squares' = [squares EXCEPT ![computeAIMove(squares, "O")] = "O"]
       /\ xIsNext' = TRUE

\* C7: on the computer's turn (game ongoing, mode "ai", O to move) the
\* timer is pending for the current board, the next move applied is
\* computeAIMove of that board unless a restart or mode change intervenes,
\* and, the timer firing eventually, the computer's turn ends
\* (ComputersTurn ~> ~ComputersTurn, written as the equivalent []<>).
ComputerMoveIsApplied ==
  /\ []TimerSetOnComputersTurn
  /\ [][ComputerMoveStep]_vars
  /\ []<>~ComputersTurn

\* The computer has answered two human moves.
ComputerHasMoved ==
  /\ mode = "ai"
  /\ xIsNext
  /\ Cardinality({i \in Cells : placed[i].by = "computer"}) = 2

\* C8: restart gives the empty board, X to move and status "ongoing", and
\* leaves the tally and the mode as they were.
RestartResetsGameOnly ==
  [][Restart =>
       /\ squares' = EmptyBoard
       /\ xIsNext' = TRUE
       /\ status' = "ongoing"
       /\ score' = score
       /\ mode' = mode]_vars

\* A finished game has been restarted: the tally is kept, the board is new.
RestartedAfterGame ==
  /\ squares = EmptyBoard
  /\ xIsNext
  /\ status = "ongoing"
  /\ score # ZeroScore
  /\ mode = "ai"

\* C9: resetScores zeroes the three counters and leaves the board, the
\* active player, the mode and the pending computer move as they were.
ResetScoresZeroesTallyOnly ==
  [][handleReset =>
       /\ score'.X = 0 /\ score'.O = 0 /\ score'.D = 0
       /\ UNCHANGED <<squares, xIsNext, mode, aiTimeout>>]_vars

\* The tally has been reset after a drawn game, the board still shown.
ResetAfterDraw ==
  /\ status = "draw"
  /\ score = ZeroScore

\* C10: a mode change gives the empty board with X to move, so every mark
\* on the board was placed under the current mode, and in mode "ai" every
\* O was placed by the computer.
ModeChangeRestarts ==
  /\ [](\A i \in Cells :
          squares[i] # null =>
            /\ placed[i].mode = mode
            /\ ((mode = "ai" /\ squares[i] = "O") => placed[i].by = "computer"))
  /\ [][(\E val \in Modes : handleModeChange(val)) =>
          (squares' = EmptyBoard /\ xIsNext' = TRUE)]_vars

\* Marks of both players on the board after a change to mode "ai".
MarksUnderAiMode ==
  /\ mode = "ai"
  /\ \E i \in Cells : squares[i] = "O" /\ placed[i].by = "computer"
  /\ \E i \in Cells : squares[i] = "X" /\ placed[i] = [mode |-> "ai", by |-> "human"]

(***************************************************************************)
(* The pure helpers on their own: calculateWinner, isDraw and              *)
(* computeAIMove are functions of their arguments, so they are run on      *)
(* every 9-cell board, for both symbols, whether play reaches it or not.   *)
(* A step is one call of computeAIMove for the symbol to move, its result  *)
(* placed on the board as the timer callback places it, after which the    *)
(* other symbol is to move: the engine playing against itself.             *)
(***************************************************************************)
Boards == [Cells -> {null, "X", "O"}]

\* The symbol the engine is called for.
EngineSymbol == IF xIsNext THEN "X" ELSE "O"

EngineInit ==
  /\ squares \in Boards
  /\ xIsNext \in BOOLEAN
  /\ mode = "ai"
  /\ status = gameOverStatus(squares)
  /\ score = ZeroScore
  /\ disableAnim = FALSE
  /\ aiTimeout = {}
  /\ placed = NoMarks

\* The call of the computer-move effect (made only while there is no
\* winner and no draw), for either symbol.
EnginePlays ==
  /\ calculateWinner(squares)[1] = null
  /\ ~isDraw(squares)
  /\ \E move \in {computeAIMove(slice(squares), EngineSymbol)} :
       /\ squares' = squaresNew(Closure, move)
       /\ placed' = placedNew(Closure, move, TRUE)
  /\ xIsNext' = ~xIsNext
  /\ status' = gameOverStatus(squares')
  /\ UNCHANGED <<mode, score, disableAnim, aiTimeout>>

EngineNext == EnginePlays

EngineSpec == EngineInit /\ [][EngineNext]_vars

(***************************************************************************)
(* The game-theoretic reading of the engine's contract, stated on sets    *)
(* of cells and values rather than on loops.                               *)
(***************************************************************************)
Other(p) == IF p = "X" THEN "O" ELSE "X"

Empties(sq) == {i \in Cells : sq[i] = null}

SetMax(S) == CHOOSE x \in S : \A y \in S : y <= x
SetMin(S) == CHOOSE x \in S : \A y \in S : y >= x

\* For each empty cell i of sq, the minimax score of symbol p playing i:
\* the opponent replies optimally; a board with a line of p made after d
\* replies is worth 10 - d, with a line of the opponent d - 10, a full
\* board 0, and any other board the greatest (p to move) or the least
\* (opponent to move) of the values of the boards one move away.
CellScores(sq, p) ==
  LET value[b \in Boards, d \in 0..9, mover \in {"X", "O"}] ==
        IF HasLine(b, p) THEN 10 - d
        ELSE IF HasLine(b, Other(p)) THEN d - 10
        ELSE IF Full(b) THEN 0
        ELSE LET vals == {value[[b EXCEPT ![i] = mover], d + 1, Other(mover)] :
                            i \in Empties(b)}
             IN IF mover = p THEN SetMax(vals) ELSE SetMin(vals)
  IN [i \in Empties(sq) |-> value[[sq EXCEPT ![i] = p], 0, Other(p)]]

\* The lowest-index cell among the empty cells of greatest score.
LowestBestCell(sq, p) ==
  LET s == CellScores(sq, p)
  IN SetMin({i \in DOMAIN s : \A j \in DOMAIN s : s[j] <= s[i]})

\* A board the engine is called on: no completed line, an empty cell left.
Ongoing(sq) == ~HasLine(sq, "X") /\ ~HasLine(sq, "O") /\ ~Full(sq)

\* C11: on every board with no completed line and an empty cell, for
\* either symbol, the cell computeAIMove returns is an empty cell of the
\* board, and it is the lowest-index one among the empty cells of greatest
\* minimax score (every step of EngineSpec places the cell one call
\* returned).
EngineReturnsLowestBestCell ==
  [][/\ Ongoing(squares)
     /\ \E i \in Empties(squares) :
          /\ i = LowestBestCell(squares, EngineSymbol)
          /\ squares' = [squares EXCEPT ![i] = EngineSymbol]]_vars

\* The engine's first mark on a board went to a cell that ties for the
\* greatest score with a later cell and beats an earlier one.
EngineBrokeATie ==
  \E i \in Cells :
    /\ placed[i].by = "computer"
    /\ Cardinality({j \in Cells : placed[j].by = "computer"}) = 1
    /\ LET prev == [squares EXCEPT ![i] = null]
           s == CellScores(prev, squares[i])
       IN /\ Ongoing(prev)
          /\ \E j \in DOMAIN s : j > i /\ s[j] = s[i]
          /\ \E j \in DOMAIN s : j < i /\ s[j] < s[i]

\* The board [X,X,_,O,O,_,_,_,_].
BlockOrWinBoard ==
  [i \in Cells |-> IF i \in {0, 1} THEN "X" ELSE IF i \in {3, 4} THEN "O" ELSE null]

\* C12 as stated: called for O on [X,X,_,O,O,_,_,_,_] the engine returns
\* index 2, the block of X's top row.
EngineBlocksTopRow ==
  [][(squares = BlockOrWinBoard /\ EngineSymbol = "O") =>
       squares' = [squares EXCEPT ![2] = "O"]]_vars

\* C12 as amended: called for O on [X,X,_,O,O,_,_,_,_] the engine returns
\* index 5, which completes O's middle row.
EngineCompletesMiddleRow ==
  [][(squares = BlockOrWinBoard /\ EngineSymbol = "O") =>
       squares' = [squares EXCEPT ![5] = "O"]]_vars

\* The engine has moved on [X,X,_,O,O,_,_,_,_] and O has won.
MiddleRowCompleted ==
  /\ squares = [BlockOrWinBoard EXCEPT ![5] = "O"]
  /\ placed = [NoMarks EXCEPT ![5] = [mode |-> "ai", by |-> "computer"]]
  /\ status = "win"

\* A state of the engine's game against itself from the empty board:
\* every mark on the board was placed by the engine.
SelfPlayed == \A i \in Cells : squares[i] # null => placed[i].by = "computer"

\* C13: in the engine's game against itself from the empty board no
\* board has a completed line of either symbol, and the game is over
\* (no further call is made) only on a full board, a draw.
SelfPlayEndsInDraw ==
  SelfPlayed =>
    /\ ~HasLine(squares, "X")
    /\ ~HasLine(squares, "O")
    /\ status # "ongoing" => (Full(squares) /\ status = "draw")

\* The end of the game X opened: nine marks, all the engine's, a draw.
SelfPlayDrawn ==
  /\ SelfPlayed
  /\ Full(squares)
  /\ Count(squares, "X") = 5
  /\ status = "draw"

\* C14: in every state the page reaches, in both modes, the board has
\* exactly the 9 cells 0..8 and either as many X as O or one X more.
BoardCountsBalanced ==
  /\ DOMAIN squares = Cells
  /\ \/ Count(squares, "X") = Count(squares, "O")
     \/ Count(squares, "X") = Count(squares, "O") + 1

\* A second game against the computer, after a finished one, with X one
\* mark ahead.
SecondGameUnderWay ==
  /\ mode = "ai"
  /\ score # ZeroScore
  /\ Count(squares, "X") = 2
  /\ Count(squares, "O") = 1

\* The status a board stands for.
StatusOf(sq) ==
  IF HasLine(sq, "X") \/ HasLine(sq, "O") THEN "win"
  ELSE IF Full(sq) THEN "draw"
  ELSE "ongoing"

\* C15: the stored status is the one the board stands for, and so is the
\* status every handler sees: the handlers of the current render see the
\* stored status and board, the pending timer callback the status and
\* board it closed over.
StatusIsDerived ==
  /\ status = StatusOf(squares)
  /\ Closure.status = StatusOf(Closure.squares)
  /\ \A c \in aiTimeout : c.status = StatusOf(c.squares)

\* A computer move is pending in a game that follows a finished one: the
\* status went to "win" or "draw" and back to "ongoing" before the timer
\* captured it.
TimerSetInSecondGame ==
  /\ aiTimeout # {}
  /\ score # ZeroScore
  /\ status = "ongoing"

\* The fixed order of the lines: rows top to bottom, columns left to
\* right, the diagonal 0-4-8, the diagonal 2-4-6.
LineOrder ==
  [k \in 1..8 |->
     IF k <= 3 THEN <<3 * (k - 1), 3 * (k - 1) + 1, 3 * (k - 1) + 2>>
     ELSE IF k <= 6 THEN <<k - 4, k - 1, k + 2>>
     ELSE IF k = 7 THEN <<0, 4, 8>>
     ELSE <<2, 4, 6>>]

\* The three cells of line l hold the same symbol.
SameSymbol(sq, l) ==
  \E p \in {"X", "O"} : sq[l[1]] = p /\ sq[l[2]] = p /\ sq[l[3]] = p

\* The first line of the order that holds one symbol, with the symbol.
FirstWonLine(sq) ==
  IF \E k \in 1..8 : SameSymbol(sq, LineOrder[k])
  THEN LET k == SetMin({n \in 1..8 : SameSymbol(sq, LineOrder[n])})
       IN <<sq[LineOrder[k][1]], LineOrder[k]>>
  ELSE <<null, null>>

\* C16: on every 9-cell board calculateWinner returns the first line of
\* the order that holds one symbol, with that symbol, or (none, none);
\* isDraw holds exactly when the board is full and calculateWinner
\* returns none, so never together with a winner.
WinnerAndDrawAsSpecified ==
  /\ squares \in Boards
  /\ calculateWinner(squares) = FirstWonLine(squares)
  /\ isDraw(squares) <=> (Full(squares) /\ calculateWinner(squares)[1] = null)
  /\ ~(isDraw(squares) /\ calculateWinner(squares)[1] # null)

\* A board no game reaches, with the top row of O and the bottom row of
\* X: the top row comes first in the order.
FirstOfTwoLinesReturned ==
  /\ SameSymbol(squares, <<0, 1, 2>>) /\ squares[0] = "O"
  /\ SameSymbol(squares, <<6, 7, 8>>) /\ squares[6] = "X"
  /\ calculateWinner(squares) = <<"O", <<0, 1, 2>>>>
  /\ ~isDraw(squares)
  /\ status = "win"

\* The lines of the order that hold one symbol on board sq.
WonLines(sq) == {k \in 1..8 : SameSymbol(sq, LineOrder[k])}

\* Lines k1 and k2 have a cell in common.
Cross(k1, k2) ==
  \E a \in 1..3 : \E b \in 1..3 : LineOrder[k1][a] = LineOrder[k2][b]

\* C17 as stated: no reachable board has two different lines that each
\* hold one symbol.
AtMostOneWonLine == Cardinality(WonLines(squares)) <= 1

\* C17 as amended: on a reachable board two different lines hold one
\* symbol each only if it is the same symbol and the lines cross (in the
\* cell of the move that completed both); lines of X and of O, or two
\* lines that do not cross, never occur.
WonLinesCrossInOneSymbol ==
  \A k1 \in WonLines(squares) : \A k2 \in WonLines(squares) :
    k1 # k2 =>
      /\ squares[LineOrder[k1][1]] = squares[LineOrder[k2][1]]
      /\ Cross(k1, k2)

\* X has completed the top row and the left column with one move.
TwoLinesWithOneMove ==
  /\ WonLines(squares) = {1, 4}
  /\ squares[0] = "X"
  /\ status = "win"
  /\ score.X = 1

\* O has a forced win on board sq under the rules of the game: O has a
\* line; or no line is complete, a cell is empty and, with O to move, O
\* has a move after which it has a forced win, or, with X to move, it has
\* one after every move of X.
OCanForceWin(sq, xToMove) ==
  LET forced[b \in Boards, x \in BOOLEAN] ==
        IF HasLine(b, "O") THEN TRUE
        ELSE IF HasLine(b, "X") \/ Full(b) THEN FALSE
        ELSE IF x
             THEN \A i \in Empties(b) : forced[[b EXCEPT ![i] = "X"], FALSE]
             ELSE \E i \in Empties(b) : forced[[b EXCEPT ![i] = "O"], TRUE]
  IN forced[sq, xToMove]

\* A move (not a restart or mode change) made while O has a forced win
\* leaves O with a forced win.
ForcedWinKept ==
  (/\ mode = "ai"
   /\ squares' # squares
   /\ squares' # EmptyBoard
   /\ OCanForceWin(squares, xIsNext)) =>
    OCanForceWin(squares', xIsNext')

\* C18: against the computer, once O has a forced win (the human has
\* made a losing move) every move, the human's and the computer's, leaves
\* O with a forced win, so a game that goes on without restart or mode
\* change never shows a line of X nor a full board without a line of O:
\* it can end only with O winning.
ComputerConvertsForcedWin ==
  /\ [][ForcedWinKept]_vars
  /\ []((mode = "ai" /\ OCanForceWin(squares, xIsNext)) =>
          (~HasLine(squares, "X") /\ (Full(squares) => HasLine(squares, "O"))))

\* The human has lost the game after the computer's second move: it is
\* the human's turn, the board is ongoing and O wins whatever X plays.
HumanHasLostAlready ==
  /\ mode = "ai"
  /\ xIsNext
  /\ ~Terminal(squares)
  /\ Cardinality({i \in Cells : placed[i].by = "computer"}) = 2
  /\ OCanForceWin(squares, TRUE)

\* The empty cells of sq that complete a line for symbol p.
WinningCells(sq, p) ==
  {i \in Empties(sq) : HasLine([sq EXCEPT ![i] = p], p)}

\* C19: on every board with no completed line where the symbol the
\* engine is called for has an empty cell that completes a line, the cell
\* the engine returns is the lowest-index such cell: the step places the
\* symbol there and the line is complete.
EngineWinsAtOnce ==
  [][(Ongoing(squares) /\ WinningCells(squares, EngineSymbol) # {}) =>
       /\ squares' = [squares EXCEPT
                        ![SetMin(WinningCells(squares, EngineSymbol))] =
                          EngineSymbol]
       /\ HasLine(squares', EngineSymbol)]_vars

\* The engine completed its line on a board where the opponent, too, was
\* one move from a line (it won rather than blocked) and where a cell of
\* lower index was empty.
EngineWonRatherThanBlocked ==
  \E i \in Cells :
    /\ placed = [NoMarks EXCEPT ![i] = [mode |-> "ai", by |-> "computer"]]
    /\ squares[i] # null
    /\ HasLine(squares, squares[i])
    /\ WinningCells([squares EXCEPT ![i] = null], Other(squares[i])) # {}
    /\ \E j \in Cells : j < i /\ squares[j] = null

\* The symbol placed by a step that adds one mark to the board, as a set
\* (empty when the step is not such a step).
SymbolPlaced ==
  {p \in {"X", "O"} :
     \E i \in Cells : squares[i] = null /\ squares' = [squares EXCEPT ![i] = p]}

\* The player whose turn it is by the counts on the board.
TurnByCounts(sq) == IF Count(sq, "X") = Count(sq, "O") THEN "X" ELSE "O"

\* C20: X is to move exactly when count(X) = count(O), O exactly when
\* count(X) = count(O) + 1, and every accepted move places the symbol
\* whose turn it is by the counts, also on the board a restart or mode
\* change has just emptied.
ActivePlayerAgreesWithBoard ==
  /\ [](/\ xIsNext <=> Count(squares, "X") = Count(squares, "O")
        /\ ~xIsNext <=> Count(squares, "X") = Count(squares, "O") + 1)
  /\ [][SymbolPlaced \subseteq {TurnByCounts(squares)}]_vars
  /\ [][(Restart \/ ChangeMode) => (xIsNext' /\ squares' = EmptyBoard)]_vars

\* The human has opened a game that a mode change to "ai" started: one X
\* on the board, O to move, the computer's move pending.
OpenedAfterModeChange ==
  /\ mode = "ai"
  /\ ~xIsNext
  /\ Count(squares, "X") = 1
  /\ Count(squares, "O") = 0
  /\ aiTimeout # {}

====
